---- MODULE Spec2Model ----
(***************************************************************************)
(* PixelFlow: the CPU-side stratified pixel sampler (PixelSampler.c) and   *)
(* the per-particle compute kernel updateParticles (Physics.h).            *)
(*                                                                         *)
(* Two state machines share this module, each under several inputs:        *)
(*   SpecSampler  one call of stratifiedSampleC, phase by phase;           *)
(*   SpecStride   the same call on longer buckets in up to three bands;    *)
(*   SpecAlloc    the same call when a bucket's allocation may fail;       *)
(*   Spec         ticks of updateParticles, one invocation per particle,   *)
(*                each invocation split at its shared-memory accesses;     *)
(*   SpecConc     the threads of a dispatch interleaved;                   *)
(*   SpecCollect  the state staying COLLECTING until the particle snaps.   *)
(***************************************************************************)
EXTENDS Integers, Sequences, FiniteSets, TLC

VARIABLES
    \* ---- stratifiedSampleC: arguments
    samples,            \* SampleC* samples, as a sequence (index j of C is j+1)
    targetCount,
    imageHeight,
    bands,
    samplesNull,        \* samples == NULL
    outSamplesNull,     \* outSamples == NULL
    \* ---- stratifiedSampleC: the allocator
    mallocFails,        \* the bands whose malloc of line 36 returns NULL
    reallocFails,       \* the realloc of line 54 returns NULL
    live,               \* the blocks the call has allocated and not freed
    \* ---- stratifiedSampleC: locals
    spc,                \* position in the function
    buckets,            \* band -> sequence of samples
    bucketImportance,   \* band -> importance
    totalImportance,
    quota,              \* band -> int
    assigned,
    outSamples,         \* written index -> sample (indices the call has written)
    outIndex,
    bandI,              \* the band loop's i in the selection pass
    taken,              \* band -> entries the stride pass wrote for the band
    truncSum,           \* sum of the quotas right after proportional truncation
    \* ---- updateParticles: the buffers of the dispatch
    particles,          \* device Particle* particles, id -> Particle
    params,             \* constant SimulationParams* params (params[0])
    collectedCounter,   \* device atomic_uint* collectedCounter
    noise,              \* id -> the values hash/sin/turbulentMotion take at params.time
    \* ---- updateParticles: the threads of the current dispatch
    pc,                 \* thread -> "idle" | "start" | "loaded" | "computed"
    p,                  \* thread -> its thread-local Particle p
    ticks,              \* dispatches issued so far
    \* ---- history
    tickStart,          \* particles as they were when the dispatch was issued
    counterStart,       \* collectedCounter when the dispatch was issued
    piped,              \* id -> a store of the update pipeline's result happened
    snapCollected,      \* id -> times life went alive -> collected in a COLLECTING tick
    forceCollected,     \* id -> times life went alive -> collected in a tick of another state
    counted             \* id -> number of atomic adds the particle's threads made

callVars == <<samplesNull, outSamplesNull, mallocFails, reallocFails>>

samplerVars == <<samples, targetCount, imageHeight, bands, spc, buckets,
                 bucketImportance, totalImportance, quota, assigned,
                 outSamples, outIndex, bandI, taken, truncSum, callVars, live>>

physVars == <<particles, params, collectedCounter, noise, pc, p, ticks,
              tickStart, counterStart, piped, snapCollected, forceCollected,
              counted>>

vars == <<samplerVars, physVars>>

(***************************************************************************)
(* Bounds of the sampler's inputs.                                         *)
(***************************************************************************)
MaxSamples == 3
MaxTarget == 3
MaxBands == 2

XValues == {0, 1}
YValues == {0, 2}
HeightValues == {2, 3}

\* Colour channels are levels 0..2 standing for 0.0, 0.5 and 1.0.
\* r = g = b in every palette entry but the dim one.
Palette == { [r |-> 2, g |-> 2, b |-> 2, a |-> 0],
             [r |-> 1, g |-> 0, b |-> 0, a |-> 2],
             [r |-> 2, g |-> 2, b |-> 2, a |-> 2] }

SampleC == { [x |-> px, y |-> py, r |-> c.r, g |-> c.g, b |-> c.b, a |-> c.a] :
             px \in XValues, py \in YValues, c \in Palette }

(***************************************************************************)
(* Helpers                                                                 *)
(***************************************************************************)
Min(a, b) == IF a < b THEN a ELSE b
Max(a, b) == IF a > b THEN a ELSE b

RECURSIVE SumTo(_, _)
\* f[0] + ... + f[n-1]
SumTo(f, n) == IF n = 0 THEN 0 ELSE f[n - 1] + SumTo(f, n - 1)

\* alpha * brightness, in units of 1/12 (levels are halves, brightness a third
\* of the channel sum): every use is a ratio or a comparison.
Importance(s) == s.a * (s.r + s.g + s.b)

\* if (!samples || sampleCount <= 0 || targetCount <= 0 || !outSamples) return;
\* if (bands <= 0 || imageHeight <= 0) return;
ValidArgsNoTarget ==
    /\ ~samplesNull /\ Len(samples) > 0 /\ ~outSamplesNull
    /\ bands > 0 /\ imageHeight > 0
ValidArgs ==
    /\ ~samplesNull /\ Len(samples) > 0 /\ targetCount > 0 /\ ~outSamplesNull
    /\ bands > 0 /\ imageHeight > 0

bandHeight == (imageHeight + bands - 1) \div bands

\* int band = s.y / bandHeight; if (band >= bands) band = bands - 1;
BandOf(s) == IF s.y \div bandHeight >= bands THEN bands - 1 ELSE s.y \div bandHeight

Bands == 0 .. (bands - 1)

\* The samples of band b, in input order (the bucketing loop appends).
BucketOf(b) == SelectSeq(samples, LAMBDA s : BandOf(s) = b)

RECURSIVE SeqImportance(_)
SeqImportance(q) == IF q = <<>> THEN 0 ELSE Importance(Head(q)) + SeqImportance(Tail(q))

(***************************************************************************)
(* Phase 1: validate, allocate, distribute the samples over the bands.     *)
(***************************************************************************)
ReturnInvalid ==
    /\ spc = "entry"
    /\ ~ValidArgs
    /\ spc' = "returned"
    /\ UNCHANGED <<samples, targetCount, imageHeight, bands, buckets,
                   bucketImportance, totalImportance, quota, assigned,
                   outSamples, outIndex, bandI, taken, truncSum>>
    /\ UNCHANGED <<callVars, live>>
    /\ UNCHANGED physVars

\* bucketCaps[i] = 64;
InitialBucketCap == 64

Block(name, i) == <<name, i>>

\* The four arrays of lines 29-32.
Arrays == { Block("buckets", 0), Block("bucketImportance", 0),
            Block("bucketSizes", 0), Block("bucketCaps", 0) }

\* buckets[i] for the bands whose bucket is not NULL.
BucketBlocks(nulls) == { Block("bucket", b) : b \in Bands \ nulls }

RECURSIVE DistributeFrom(_, _, _, _, _)
\* The loop of lines 41-66 from sample i (1-based) on: how it ends and which
\* buckets are NULL then.  A failed realloc frees and returns; a store through
\* a NULL bucket is undefined: ub says whether the build traps on it or lets
\* the call go on; realloc of a NULL bucket allocates it.
DistributeFrom(i, sizes, caps, nulls, ub) ==
    IF i > Len(samples) THEN [end |-> "done", nulls |-> nulls]
    ELSE LET b == BandOf(samples[i])
             grows == sizes[b] >= caps[b]
         IN IF grows /\ reallocFails THEN [end |-> "nomem", nulls |-> nulls]
            ELSE IF ~grows /\ b \in nulls /\ ub = "trap"
                 THEN [end |-> "crashed", nulls |-> nulls]
            ELSE DistributeFrom(i + 1,
                                [sizes EXCEPT ![b] = @ + 1],
                                [caps EXCEPT ![b] = IF grows THEN 2 * @ ELSE @],
                                IF grows THEN nulls \ {b} ELSE nulls,
                                ub)

Distribute ==
    /\ spc = "entry"
    /\ ValidArgs
    /\ \E ub \in {"trap", "go on"} :
       \E r \in { DistributeFrom(1, [b \in Bands |-> 0],
                                 [b \in Bands |-> InitialBucketCap],
                                 mallocFails \cap Bands, ub) } :
          IF r.end = "done"
          THEN /\ buckets' = [b \in Bands |-> BucketOf(b)]
               /\ bucketImportance' = [b \in Bands |-> SeqImportance(BucketOf(b))]
               /\ totalImportance' = SeqImportance(samples)
               /\ quota' = [b \in Bands |-> 0]
               /\ taken' = [b \in Bands |-> 0]
               /\ live' = Arrays \cup BucketBlocks(r.nulls)
               /\ spc' = "quota"
          ELSE /\ live' = IF r.end = "nomem" THEN {}
                          ELSE Arrays \cup BucketBlocks(r.nulls)
               /\ spc' = IF r.end = "nomem" THEN "returned" ELSE "crashed"
               /\ UNCHANGED <<buckets, bucketImportance, totalImportance,
                              quota, taken>>
    /\ UNCHANGED <<samples, targetCount, imageHeight, bands, assigned,
                   outSamples, outIndex, bandI, truncSum>>
    /\ UNCHANGED callVars
    /\ UNCHANGED physVars

(***************************************************************************)
(* Phase 2: the bands' quotas.                                             *)
(***************************************************************************)
\* if (totalImportance <= 0.0f) bucketImportance[i] = (float)bucketSizes[i];
FallbackImportance(imp, total) ==
    IF total <= 0 THEN [b \in Bands |-> Len(buckets[b])] ELSE imp

\* quota[i] = (int)((bucketImportance[i] / totalImportance) * targetCount);
\* the conversion to int truncates; the operands are never negative.
QuotaCeil(imp, total, target) == (imp * target + total - 1) \div total
QuotaOf(imp, total, target) == (imp * target) \div total

AllocateQuota ==
    /\ spc = "quota"
    /\ LET imp == FallbackImportance(bucketImportance, totalImportance)
           total == IF totalImportance <= 0 THEN SumTo(imp, bands) ELSE totalImportance
       IN /\ bucketImportance' = imp
          /\ totalImportance' = total
          /\ IF total <= 0
                THEN /\ spc' = "returned"
                     /\ live' = {}
                     /\ UNCHANGED <<quota, assigned, truncSum>>
                ELSE LET q == [b \in Bands |-> QuotaOf(imp[b], total, targetCount)]
                     IN /\ quota' = q
                        /\ assigned' = SumTo(q, bands)
                        /\ truncSum' = SumTo(q, bands)
                        /\ live' = live \cup {Block("quota", 0)}
                        /\ spc' = "remainder"
    /\ UNCHANGED <<samples, targetCount, imageHeight, bands, buckets,
                   outSamples, outIndex, bandI, taken>>
    /\ UNCHANGED callVars
    /\ UNCHANGED physVars

RECURSIVE MaxBandFrom(_, _, _, _)
\* for (i = 0; i < bands; i++) if (bucketImportance[i] > maxImp) {maxImp = ..; maxBand = i;}
MaxBandFrom(imp, i, maxImp, maxBand) ==
    IF i >= bands THEN maxBand
    ELSE IF imp[i] > maxImp THEN MaxBandFrom(imp, i + 1, imp[i], i)
         ELSE MaxBandFrom(imp, i + 1, maxImp, maxBand)

MaxBandFirst(imp) == 0
MaxBand(imp) == MaxBandFrom(imp, 0, 0, 0)

\* One iteration of while (assigned < targetCount).
RemainderStep ==
    /\ spc = "remainder"
    /\ assigned < targetCount
    /\ LET maxBand == MaxBand(bucketImportance)
       IN /\ quota' = [quota EXCEPT ![maxBand] = @ + 1]
          /\ bucketImportance' = [bucketImportance EXCEPT ![maxBand] = 0]
    /\ assigned' = assigned + 1
    /\ UNCHANGED <<samples, targetCount, imageHeight, bands, spc, buckets,
                   totalImportance, outSamples, outIndex, bandI, taken, truncSum>>
    /\ UNCHANGED <<callVars, live>>
    /\ UNCHANGED physVars

RemainderDone ==
    /\ spc = "remainder"
    /\ ~(assigned < targetCount)
    /\ spc' = "select"
    /\ outIndex' = 0
    /\ bandI' = 0
    /\ UNCHANGED <<samples, targetCount, imageHeight, bands, buckets,
                   bucketImportance, totalImportance, quota, assigned,
                   outSamples, taken, truncSum>>
    /\ UNCHANGED <<callVars, live>>
    /\ UNCHANGED physVars

(***************************************************************************)
(* Phase 3: per band, sort by importance and take every step-th sample.    *)
(***************************************************************************)
Swap(q, k) == [q EXCEPT ![k] = q[k + 1], ![k + 1] = q[k]]

RECURSIVE BubbleInner(_, _, _)
\* for (k = 0; k < count-1-j; k++) if (imp1 < imp2) swap(k, k+1); k is 1-based here
BubbleInner(q, k, last) ==
    IF k > last THEN q
    ELSE IF Importance(q[k]) < Importance(q[k + 1])
         THEN BubbleInner(Swap(q, k), k + 1, last)
         ELSE BubbleInner(q, k + 1, last)

RECURSIVE BubbleOuter(_, _)
\* for (j = 0; j < count-1; j++)
BubbleOuter(q, j) ==
    IF j >= Len(q) - 1 THEN q
    ELSE BubbleOuter(BubbleInner(q, 1, Len(q) - 1 - j), j + 1)

BubbleSort(q) == BubbleOuter(q, 0)

\* int step = (count / quota[i]) > 0 ? (count / quota[i]) : 1;
StepOfOne(count, q) == 1
StepOf(count, q) == IF count \div q > 0 THEN count \div q ELSE 1

\* j < count && outIndex < targetCount
StrideGuardNoCap(j, count, oi, target) == j < count
StrideGuard(j, count, oi, target) == j < count /\ oi < target

RECURSIVE Stride(_, _, _, _, _)
\* for (j = 0; guard; j += step) outSamples[outIndex++] = buckets[i][j];
Stride(q, j, step, out, oi) ==
    IF StrideGuard(j, Len(q), oi, targetCount)
    THEN Stride(q, j + step, step, out @@ (oi :> q[j + 1]), oi + 1)
    ELSE [out |-> out, outIndex |-> oi]

SelectBand ==
    /\ spc = "select"
    /\ bandI < bands
    /\ LET count == Len(buckets[bandI])
       IN IF count = 0 \/ quota[bandI] = 0
          THEN UNCHANGED <<buckets, outSamples, outIndex, taken>>
          ELSE LET sorted == BubbleSort(buckets[bandI])
                   r == Stride(sorted, 0, StepOf(count, quota[bandI]),
                               outSamples, outIndex)
               IN /\ buckets' = [buckets EXCEPT ![bandI] = sorted]
                  /\ outSamples' = r.out
                  /\ outIndex' = r.outIndex
                  /\ taken' = [taken EXCEPT ![bandI] = r.outIndex - outIndex]
    /\ bandI' = bandI + 1
    /\ UNCHANGED <<samples, targetCount, imageHeight, bands, spc,
                   bucketImportance, totalImportance, quota, assigned, truncSum>>
    /\ UNCHANGED <<callVars, live>>
    /\ UNCHANGED physVars

SelectDone ==
    /\ spc = "select"
    /\ ~(bandI < bands)
    /\ spc' = "second"
    /\ UNCHANGED <<samples, targetCount, imageHeight, bands, buckets,
                   bucketImportance, totalImportance, quota, assigned,
                   outSamples, outIndex, bandI, taken, truncSum>>
    /\ UNCHANGED <<callVars, live>>
    /\ UNCHANGED physVars

(***************************************************************************)
(* Phase 4: the second pass, then the frees and the return.                *)
(***************************************************************************)
\* for (k = 0; k < outIndex; k++) if (out[k].x == s.x && out[k].y == s.y) alreadyUsed = 1
AlreadyUsedNever(out, oi, s) == FALSE
AlreadyUsed(out, oi, s) ==
    \E k \in 0 .. (oi - 1) : out[k].x = s.x /\ out[k].y = s.y

RECURSIVE FillBucket(_, _, _, _)
\* for (j = 0; j < count && outIndex < targetCount; j++)
FillBucket(q, j, out, oi) ==
    IF j < Len(q) /\ oi < targetCount
    THEN IF AlreadyUsed(out, oi, q[j + 1])
         THEN FillBucket(q, j + 1, out, oi)
         ELSE FillBucket(q, j + 1, out @@ (oi :> q[j + 1]), oi + 1)
    ELSE [out |-> out, outIndex |-> oi]

RECURSIVE FillBands(_, _, _)
\* for (i = 0; i < bands; i++) { ...; if (outIndex >= targetCount) break; }
FillBands(i, out, oi) ==
    IF i >= bands THEN [out |-> out, outIndex |-> oi]
    ELSE LET r == FillBucket(buckets[i], 0, out, oi)
         IN IF r.outIndex >= targetCount THEN r
            ELSE FillBands(i + 1, r.out, r.outIndex)

\* if (outIndex < targetCount) { ... }
SecondPassNeededNever(oi, target) == FALSE
SecondPassNeeded(oi, target) == oi < target

SecondPass ==
    /\ spc = "second"
    /\ LET r == IF SecondPassNeeded(outIndex, targetCount)
                THEN FillBands(0, outSamples, outIndex)
                ELSE [out |-> outSamples, outIndex |-> outIndex]
       IN /\ outSamples' = r.out
          /\ outIndex' = r.outIndex
    /\ spc' = "returned"
    /\ live' = {}
    /\ UNCHANGED <<samples, targetCount, imageHeight, bands, buckets,
                   bucketImportance, totalImportance, quota, assigned,
                   bandI, taken, truncSum>>
    /\ UNCHANGED callVars
    /\ UNCHANGED physVars

(***************************************************************************)
(* The sampler's specification: one call on every bounded input.           *)
(***************************************************************************)
NoSamples == << >>
NoWrites == [k \in {} |-> 0]

SamplerIdle ==
    /\ buckets = << >>
    /\ bucketImportance = << >>
    /\ totalImportance = 0
    /\ quota = << >>
    /\ assigned = 0
    /\ outSamples = NoWrites
    /\ outIndex = 0
    /\ bandI = 0
    /\ taken = << >>
    /\ truncSum = 0
    /\ live = {}

\* Every allocation of the call succeeds.
NoAllocationFails ==
    /\ mallocFails = {}
    /\ reallocFails = FALSE

\* No dispatch of updateParticles is in progress and there are no particles.
PhysIdle ==
    /\ particles = << >>
    /\ params = << >>
    /\ collectedCounter = 0
    /\ noise = << >>
    /\ pc = << >>
    /\ p = << >>
    /\ ticks = 0
    /\ tickStart = << >>
    /\ counterStart = 0
    /\ piped = << >>
    /\ snapCollected = << >>
    /\ forceCollected = << >>
    /\ counted = << >>

\* A null pointer or a non-positive count or dimension among the arguments.
ArgsRejected ==
    \/ samplesNull \/ outSamplesNull
    \/ Len(samples) <= 0 \/ targetCount <= 0 \/ bands <= 0 \/ imageHeight <= 0

\* Calls with valid arguments, and a few calls the argument check rejects.
SamplerInit ==
    /\ \/ /\ samples \in UNION { [1 .. n -> SampleC] : n \in 1 .. MaxSamples }
          /\ targetCount \in 1 .. MaxTarget
          /\ bands \in 1 .. MaxBands
          /\ imageHeight \in HeightValues
          /\ samplesNull = FALSE
          /\ outSamplesNull = FALSE
       \/ /\ samples \in UNION { [1 .. n -> SampleC] : n \in 0 .. 1 }
          /\ targetCount \in 0 .. 1
          /\ bands \in 0 .. 1
          /\ imageHeight \in {0} \cup HeightValues
          /\ samplesNull \in BOOLEAN
          /\ outSamplesNull \in BOOLEAN
          /\ ArgsRejected
    /\ NoAllocationFails
    /\ spc = "entry"
    /\ SamplerIdle
    /\ PhysIdle

SamplerNext ==
    \/ ReturnInvalid
    \/ Distribute
    \/ AllocateQuota
    \/ RemainderStep
    \/ RemainderDone
    \/ SelectBand
    \/ SelectDone
    \/ SecondPass

SpecSampler == SamplerInit /\ [][SamplerNext]_vars

(***************************************************************************)
(* The same call on inputs that stress the quotas and the stride: up to    *)
(* three bands, all of them populated, and buckets longer than their quota.*)
(***************************************************************************)
StrideSamples == 4
StrideTarget == 3
StrideBands == 3

StrideHeight == 3
StrideYValues == 0 .. (StrideHeight - 1)

\* A transparent and an opaque white pixel: importance 0 and 12.
StridePalette == { c \in Palette : c.r = 2 }

StrideSampleC == { [x |-> 0, y |-> py, r |-> c.r, g |-> c.g, b |-> c.b, a |-> c.a] :
                   py \in StrideYValues, c \in StridePalette }

StrideInit ==
    /\ samples \in UNION { [1 .. n -> StrideSampleC] : n \in 1 .. StrideSamples }
    /\ targetCount \in 0 .. StrideTarget
    /\ bands \in 1 .. StrideBands
    /\ imageHeight = StrideHeight
    /\ samplesNull = FALSE
    /\ outSamplesNull = FALSE
    /\ NoAllocationFails
    /\ spc = "entry"
    /\ SamplerIdle
    /\ PhysIdle

SpecStride == StrideInit /\ [][SamplerNext]_vars

(***************************************************************************)
(* The same call when allocations may fail: a bucket's malloc of line 36   *)
(* or the realloc of line 54.  A band overflows its initial capacity when  *)
(* it receives InitialBucketCap + 1 samples.                               *)
(***************************************************************************)
AllocTarget == 2
AllocBands == 2

\* Opaque white pixels: n of them on row y1 followed by one on row y2.
AllocRun(n, y1, y2) ==
    [j \in 1 .. (n + 1) |->
        [x |-> j % 2, y |-> IF j <= n THEN y1 ELSE y2, r |-> 2, g |-> 2, b |-> 2, a |-> 2]]

AllocInit ==
    /\ samples \in { AllocRun(n, y1, y2) :
                        n \in {1, InitialBucketCap + 1}, y1 \in YValues, y2 \in YValues }
    /\ targetCount \in 0 .. AllocTarget
    /\ bands \in 1 .. AllocBands
    /\ imageHeight = StrideHeight
    /\ samplesNull = FALSE
    /\ outSamplesNull = FALSE
    /\ mallocFails \in SUBSET (0 .. (AllocBands - 1))
    /\ reallocFails \in BOOLEAN
    /\ spc = "entry"
    /\ SamplerIdle
    /\ PhysIdle

SpecAlloc == AllocInit /\ [][SamplerNext]_vars

(***************************************************************************)
(* Properties of stratifiedSampleC                                         *)
(***************************************************************************)
Returned == spc = "returned" /\ ValidArgs

\* The input samples have pairwise distinct (x, y).
DistinctInput ==
    \A i, j \in 1 .. Len(samples) :
        i # j => (samples[i].x # samples[j].x \/ samples[i].y # samples[j].y)

\* C4: at every point of a call the k entries written to outSamples occupy
\* exactly the indices 0..k-1, with k <= targetCount and k <= sampleCount, and
\* no index >= targetCount is written.
C4_OutputWithinBounds ==
    /\ DOMAIN outSamples = 0 .. (outIndex - 1)
    /\ outIndex <= targetCount
    /\ outIndex <= Len(samples)
    /\ \A k \in DOMAIN outSamples : k < targetCount

\* A finished call that filled the whole buffer from a larger input spread over
\* two bands, both passes of which wrote.
C4_Witness ==
    /\ Returned
    /\ bands = 2
    /\ outIndex = targetCount
    /\ targetCount < Len(samples)
    /\ taken[0] > 0
    /\ taken[0] + taken[1] < outIndex

\* C5 as stated: no two entries written to outSamples have the same (x, y).
C5_NoDuplicateCoordinates ==
    \A j, k \in DOMAIN outSamples :
        j # k => (outSamples[j].x # outSamples[k].x \/ outSamples[j].y # outSamples[k].y)

\* C5 amended: when the input samples have pairwise distinct coordinates, no two
\* entries written to outSamples have the same (x, y), whichever pass wrote them.
C5_NoDuplicatesOfDistinctInput == DistinctInput => C5_NoDuplicateCoordinates

\* A finished call on distinct input in which the second pass skipped a sample
\* the stride pass had taken and appended others.
C5_Witness ==
    /\ Returned
    /\ DistinctInput
    /\ taken[0] > 0
    /\ outIndex > SumTo(taken, bands)
    /\ outIndex >= 2

\* C6: a finished call on valid input with pairwise distinct coordinates has
\* written exactly min(targetCount, sampleCount) entries, the all-transparent
\* input (quotas from the bands' population counts) included.
C6_ExactCount ==
    (Returned /\ DistinctInput) => outIndex = Min(targetCount, Len(samples))

\* A finished call on an all-transparent input of several samples in two bands:
\* the total importance was replaced by the population count.
C6_Witness ==
    /\ Returned
    /\ DistinctInput
    /\ bands = 2
    /\ Len(samples) >= 2
    /\ \A i \in 1 .. Len(samples) : samples[i].a = 0
    /\ totalImportance = Len(samples)
    /\ outIndex = Min(targetCount, Len(samples))
    /\ outIndex >= 2

\* C7 (state part): the quotas from proportional truncation sum to at most
\* targetCount, the remainder loop never overshoots, and once it is left the
\* quotas sum to targetCount.
C7_QuotaSumInv ==
    /\ truncSum <= targetCount
    /\ spc = "remainder" =>
          /\ SumTo(quota, bands) = assigned
          /\ assigned >= truncSum
          /\ assigned <= targetCount
    /\ (spc \in {"select", "second"} \/ (Returned /\ totalImportance > 0)) =>
          SumTo(quota, bands) = targetCount

\* C7: the sum of the truncated quotas is at most targetCount, the remainder
\* loop always terminates (every iteration decreases targetCount - assigned,
\* which the state part keeps non-negative), and after it the quotas sum to
\* targetCount.
C7_QuotaSum ==
    /\ [] C7_QuotaSumInv
    /\ [][(spc = "remainder" /\ spc' = "remainder") =>
            (targetCount' - assigned' < targetCount - assigned)]_vars

\* The remainder loop has handed out a leftover unit and ended.
C7_Witness ==
    /\ spc = "select"
    /\ bands = 2
    /\ truncSum < targetCount
    /\ SumTo(quota, bands) = targetCount

\* C11: a call with a null samples or outSamples, or a non-positive
\* sampleCount, targetCount, bands or imageHeight, goes from its entry
\* straight to its return: it writes no entry of outSamples and allocates
\* nothing.
C11_InvalidArgsNoOp ==
    ArgsRejected =>
        /\ spc \in {"entry", "returned"}
        /\ outSamples = NoWrites
        /\ outIndex = 0
        /\ live = {}

\* A call whose only fault is the null outSamples has returned.
C11_Witness ==
    /\ spc = "returned"
    /\ outSamplesNull /\ ~samplesNull
    /\ Len(samples) > 0 /\ targetCount > 0 /\ bands > 0 /\ imageHeight > 0

\* The place of entry j of q when q is ordered by importance, largest first,
\* entries of equal importance in the order they have in q.
RankOf(q, j) ==
    1 + Cardinality({ k \in 1 .. Len(q) : Importance(q[k]) > Importance(q[j]) })
      + Cardinality({ k \in 1 .. (j - 1) : Importance(q[k]) = Importance(q[j]) })

SortedByImportance(q) ==
    [i \in 1 .. Len(q) |-> q[CHOOSE j \in 1 .. Len(q) : RankOf(q, j) = i]]

\* max(1, floor(sampleCount / targetCount))
StrideOfCall == Max(1, Len(samples) \div targetCount)

\* C12: with bands = 1 a finished call has written the input sorted by
\* alpha * brightness, largest first and ties in input order, taken at the
\* positions 0, step, 2 * step, ... with step = max(1, floor(sampleCount /
\* targetCount)), at most targetCount of them, and nothing else.
C12_SingleBandStride ==
    (Returned /\ bands = 1) =>
        LET sorted == SortedByImportance(samples)
            n == Cardinality({ k \in 0 .. (targetCount - 1) :
                                  k * StrideOfCall < Len(samples) })
        IN /\ outIndex = n
           /\ outSamples = [k \in 0 .. (n - 1) |-> sorted[k * StrideOfCall + 1]]

\* A finished single-band call that took every second entry of four samples
\* the sort had to reorder, two of them of equal importance.
C12_Witness ==
    /\ Returned
    /\ bands = 1
    /\ Len(samples) = 4
    /\ targetCount = 2
    /\ outIndex = 2
    /\ Importance(samples[1]) < Importance(samples[2])
    /\ Importance(samples[2]) = Importance(samples[3])
    /\ samples[2].y # samples[3].y
    /\ outSamples[1] = samples[3]

\* C14: the stride pass never takes more samples from a band than the band's
\* quota.
C14_TakenWithinQuota ==
    spc \in {"select", "second"} => \A b \in Bands : taken[b] <= quota[b]

\* The importance the quotas of band b are computed from: the sum over the
\* band's samples, or the band's population when no sample has any.
BandImportance(b) ==
    IF SeqImportance(samples) <= 0 THEN Len(BucketOf(b)) ELSE SeqImportance(BucketOf(b))

\* The band's share of targetCount, truncated.
TruncatedQuota(b) ==
    (BandImportance(b) * targetCount) \div SumTo([c \in Bands |-> BandImportance(c)], bands)

\* An iteration of the remainder loop awards its unit to band b.
AwardedTo(b) ==
    /\ quota' = [quota EXCEPT ![b] = @ + 1]
    /\ bucketImportance[b] > 0
    /\ \A c \in Bands : bucketImportance[c] <= bucketImportance[b]
    /\ \A c \in 0 .. (b - 1) : bucketImportance[c] < bucketImportance[b]
    /\ bucketImportance' = [bucketImportance EXCEPT ![b] = 0]
    /\ quota'[b] = TruncatedQuota(b) + 1

RemainderAward ==
    (spc = "remainder" /\ assigned' = assigned + 1) => \E b \in Bands : AwardedTo(b)

\* C16: every leftover unit goes to the band whose remaining importance is
\* largest, the lowest index among equals, that importance is positive and is
\* zeroed by the award, and no band receives more than one leftover unit.
C16_RemainderSpread == [][RemainderAward]_vars

\* Three bands of equal positive importance and targetCount = 2: nothing is
\* left of the truncated shares, and the two units went to bands 0 and 1.
C16_Witness ==
    /\ spc = "select"
    /\ bands = 3
    /\ targetCount = 2
    /\ truncSum = 0
    /\ BandImportance(0) > 0
    /\ BandImportance(1) = BandImportance(0)
    /\ BandImportance(2) = BandImportance(0)
    /\ quota[0] = 1 /\ quota[1] = 1 /\ quota[2] = 0

\* Some band receives more samples than its initial capacity.
GrowthAttempted == \E b \in Bands : Len(BucketOf(b)) > InitialBucketCap

\* An allocation of a bucket fails in the call: the malloc of a band's bucket,
\* or the realloc when a band grows.
BucketAllocationFails ==
    /\ ValidArgs
    /\ \/ mallocFails \cap Bands # {}
       \/ reallocFails /\ GrowthAttempted

\* C20: a call in which an allocation of a bucket fails goes no further than
\* its return, with nothing written to outSamples and, once returned, every
\* block it allocated released.
C20_AllocationFailureAborts ==
    BucketAllocationFails =>
        /\ spc \in {"entry", "returned"}
        /\ outSamples = NoWrites
        /\ outIndex = 0
        /\ spc = "returned" => live = {}

(***************************************************************************)
(*                       updateParticles (Physics.h)                       *)
(*                                                                         *)
(* A float is a fixed-point integer in thousandths (1.0 is SCALE), or one  *)
(* of the three non-finite values.  Products and quotients truncate toward *)
(* zero; a square root is the integer square root.  Pixel counts           *)
(* (screenSize) are plain integers.                                        *)
(***************************************************************************)
SCALE == 1000

NaN == 2000000002
PInf == 2000000001
NInf == -2000000001

IsNaN(a) == a = NaN
IsInf(a) == a = PInf \/ a = NInf
\* isfinite(a)
IsFinite(a) == ~IsNaN(a) /\ ~IsInf(a)

Abs(a) == IF a < 0 THEN -a ELSE a
Sign(a) == IF a < 0 THEN -1 ELSE 1

\* a * b / c for finite a, b and c > 0, truncated toward zero, without an
\* intermediate product beyond the 32-bit range.
MulDiv(a, b, c) ==
    LET m == Abs(a)
        n == Abs(b)
    IN Sign(a) * Sign(b) * ((m \div c) * n + ((m % c) * n) \div c)

\* Comparisons: false when an operand is NaN.
FLt(a, b) == ~IsNaN(a) /\ ~IsNaN(b) /\ a < b
FLe(a, b) == ~IsNaN(a) /\ ~IsNaN(b) /\ a <= b
FGt(a, b) == FLt(b, a)
FGe(a, b) == FLe(b, a)

FNeg(a) == IF IsNaN(a) THEN NaN ELSE -a

FAdd(a, b) ==
    IF IsNaN(a) \/ IsNaN(b) THEN NaN
    ELSE IF IsInf(a) THEN (IF IsInf(b) /\ a # b THEN NaN ELSE a)
    ELSE IF IsInf(b) THEN b
    ELSE a + b

FSub(a, b) == FAdd(a, FNeg(b))

FMul(a, b) ==
    IF IsNaN(a) \/ IsNaN(b) THEN NaN
    ELSE IF IsInf(a) \/ IsInf(b)
         THEN (IF a = 0 \/ b = 0 THEN NaN
               ELSE IF Sign(a) * Sign(b) > 0 THEN PInf ELSE NInf)
    ELSE MulDiv(a, b, SCALE)

FDiv(a, b) ==
    IF IsNaN(a) \/ IsNaN(b) THEN NaN
    ELSE IF IsInf(a) THEN (IF IsInf(b) THEN NaN
                           ELSE IF Sign(a) * Sign(b) > 0 THEN PInf ELSE NInf)
    ELSE IF IsInf(b) THEN 0
    ELSE IF b = 0 THEN (IF a = 0 THEN NaN ELSE IF a > 0 THEN PInf ELSE NInf)
    ELSE Sign(b) * MulDiv(a, SCALE, Abs(b))

FAbs(a) == IF IsNaN(a) THEN NaN ELSE IF a = NInf THEN PInf ELSE Abs(a)

RECURSIVE ISqrtBetween(_, _, _)
\* the largest r in lo..hi with r * r <= n
ISqrtBetween(n, lo, hi) ==
    IF lo >= hi THEN lo
    ELSE LET mid == (lo + hi + 1) \div 2
         IN IF mid * mid <= n THEN ISqrtBetween(n, mid, hi)
            ELSE ISqrtBetween(n, lo, mid - 1)

ISqrt(n) == ISqrtBetween(n, 0, 46340)

\* sqrt(a); beyond the 32-bit range of a * SCALE the root is taken at a
\* coarser resolution.
FSqrt(a) ==
    IF IsNaN(a) \/ FLt(a, 0) THEN NaN
    ELSE IF a = PInf THEN PInf
    ELSE IF a < 2000000 THEN ISqrt(a * SCALE)
    ELSE 100 * ISqrt(a \div 10)

\* min(x, y) and max(x, y) of the shading language: y < x ? y : x and
\* x < y ? y : x, the value being undefined when an operand is NaN or
\* infinite; u is the value the build yields then.
FMin(x, y, u) == IF IsFinite(x) /\ IsFinite(y) THEN (IF y < x THEN y ELSE x) ELSE u
FMax(x, y, u) == IF IsFinite(x) /\ IsFinite(y) THEN (IF x < y THEN y ELSE x) ELSE u
\* clamp(x, lo, hi) = min(max(x, lo), hi)
FClamp(x, lo, hi, u) == FMin(FMax(x, lo, u), hi, u)

\* ---- float2
Vec(a, b) == [x |-> a, y |-> b]
VAdd(v, w) == Vec(FAdd(v.x, w.x), FAdd(v.y, w.y))
VSub(v, w) == Vec(FSub(v.x, w.x), FSub(v.y, w.y))
\* v * s and v / s for a scalar s
VScale(v, s) == Vec(FMul(v.x, s), FMul(v.y, s))
VDiv(v, s) == Vec(FDiv(v.x, s), FDiv(v.y, s))

\* dot(v, w)
Dot(v, w) == FAdd(FMul(v.x, w.x), FMul(v.y, w.y))

\* length(v)
Length(v) ==
    IF IsNaN(v.x) \/ IsNaN(v.y) THEN NaN
    ELSE IF IsInf(v.x) \/ IsInf(v.y) THEN PInf
    ELSE IF Abs(v.x) <= 30000 /\ Abs(v.y) <= 30000
         THEN ISqrt(v.x * v.x + v.y * v.y)
    ELSE 100 * ISqrt((Abs(v.x) \div 100) * (Abs(v.x) \div 100)
                     + (Abs(v.y) \div 100) * (Abs(v.y) \div 100))

\* sin(a): Bhaskara's rational approximation on [0, pi], a in thousandths of a
\* radian reduced to hundredths.
SinHalfTurn(r) ==
    LET c == r \div 10
    IN (16 * c * (314 - c) * SCALE) \div (5 * 314 * 314 - 4 * c * (314 - c))

Sin(a) ==
    IF ~IsFinite(a) THEN NaN
    ELSE LET r == a % 6283
         IN IF r <= 3141 THEN SinHalfTurn(r) ELSE -SinHalfTurn(Min(r - 3142, 3140))

(***************************************************************************)
(* Constants of Physics.h, in thousandths.                                 *)
(***************************************************************************)
COLLECTION_BASE_SPEED == 30000
COLLECTION_MIN_SPEED == 250
COLLECTION_SNAP_PIXELS == 1000
COLLECTION_VELOCITY_DAMPING == 900
CHAOTIC_MOVEMENT_SCALE == 80
CHAOTIC_VELOCITY_DAMPING_NORMAL == 980
CHAOTIC_VELOCITY_DAMPING_HIGH == 950
CHAOTIC_HIGH_SPEED_THRESHOLD == 300
STORM_ELECTRIC_FORCE == 4000
STORM_ELECTRIC_DAMPING == 200
STORM_BASE_TURBULENCE == 500
STORM_VELOCITY_DAMPING == 980
ELECTRIC_HUE_OFFSET_G == 2100
ELECTRIC_HUE_OFFSET_B == 4200
MAX_VELOCITY == 15000
BOUNDARY_BOUNCE_DAMPING == 900
PARTICLE_PULSE_AMPLITUDE == 100
NDC_MAX_POS == 1000
NDC_MIN_POS == -1000
BOUNDARY_MARGIN == 20
REPULSION_ZONE == 50
REPULSION_STRENGTH == 2000

(***************************************************************************)
(* Constants of Simulation.h, which Physics.h includes and names in its    *)
(* comment (lines 63-66) and which is not among the sources: the values    *)
(* follow the design description (the collected sentinel lies outside the  *)
(* alive range, which is the phase accumulator's [0, 2 pi]).               *)
(***************************************************************************)
MIN_DT == 1
MAX_DT == 100
DEFAULT_DT == 16
MIN_VECTOR_LENGTH == 0
MAX_FLOAT_VALUE == 1000000000
TWO_PI == 6283
PARTICLE_ALIVE == 0
PARTICLE_COLLECTED == -1000

SIMULATION_STATE_IDLE == "IDLE"
SIMULATION_STATE_CHAOTIC == "CHAOTIC"
SIMULATION_STATE_COLLECTING == "COLLECTING"
SIMULATION_STATE_COLLECTED == "COLLECTED"
SIMULATION_STATE_LIGHTNING_STORM == "LIGHTNING_STORM"

(***************************************************************************)
(* Helper functions                                                        *)
(***************************************************************************)
safeDeltaTimeForPhysics(dt) ==
    IF IsFinite(dt) /\ FGt(dt, MIN_DT) /\ FLt(dt, MAX_DT) THEN dt ELSE DEFAULT_DT

safeNormalize2(v) ==
    LET len == Length(v)
    IN IF FGt(len, MIN_VECTOR_LENGTH) THEN VDiv(v, len) ELSE Vec(0, 0)

isFloatSafe(value) == IsFinite(value) /\ FLt(FAbs(value), MAX_FLOAT_VALUE)

isFloat2Safe(value) == isFloatSafe(value.x) /\ isFloatSafe(value.y)

\* p.velocity.xy and p.velocity.xy = v
VelocityXY(q) == Vec(q.velocity.x, q.velocity.y)
WithVelocityXY(q, v) == [q EXCEPT !.velocity.x = v.x, !.velocity.y = v.y]

\* mix(x, y, a) = x + (y - x) * a
Mix(v, w, a) == VAdd(v, VScale(VSub(w, v), a))

(***************************************************************************)
(* Movement calculation functions.  q is the thread's Particle, prm the    *)
(* SimulationParams, nz the thread's noise and undefined-value draw.       *)
(***************************************************************************)
\* if (p.life >= PARTICLE_ALIVE) { p.life = PARTICLE_COLLECTED; atomic add }
SnapCountsAlways(life) == TRUE
SnapCounts(life) == FGe(life, PARTICLE_ALIVE)

\* min(pixelToNDC.x, pixelToNDC.y) for safeScreen = max(screenSize, 1.0)
MinPixelToNDC(prm) ==
    Min((2 * SCALE) \div Max(prm.screenSize.x, 1),
        (2 * SCALE) \div Max(prm.screenSize.y, 1))

snapThreshold(prm) == FMul(MinPixelToNDC(prm), COLLECTION_SNAP_PIXELS)

\* The result is the particle and the number added to collectedCounter.
calculateCollectionMovement(q, prm, safeDt, nz) ==
    LET pos == q.position
        target == q.targetPosition
        toTarget == VSub(target, pos)
        distToTarget == Length(toTarget)
        minP == MinPixelToNDC(prm)
    IN IF FLe(distToTarget, snapThreshold(prm))
       THEN LET snapped == [WithVelocityXY(q, Vec(0, 0)) EXCEPT !.position = target]
            IN IF SnapCounts(q.life)
               THEN [q |-> [snapped EXCEPT !.life = PARTICLE_COLLECTED], inc |-> 1]
               ELSE [q |-> snapped, inc |-> 0]
       ELSE LET baseSpeedPixels ==
                    IF prm.collectionSpeed > 0
                    THEN FMul(prm.collectionSpeed, COLLECTION_BASE_SPEED)
                    ELSE COLLECTION_BASE_SPEED
                \* max(minP, 1e-6): the smallest positive value of the model
                distPixels == FDiv(distToTarget, FMax(minP, 1, nz.undef))
                ease == FClamp(FDiv(distPixels, 12 * SCALE), 100, 1000, nz.undef)
                moveDistancePixels == FMul(FMul(baseSpeedPixels, safeDt), ease)
                minMove == FMul(minP, COLLECTION_MIN_SPEED)
                moveDistance ==
                    FMin(FMax(FMul(moveDistancePixels, minP), minMove, nz.undef),
                         distToTarget, nz.undef)
                prevPos == pos
                newPos == IF FGt(distToTarget, snapThreshold(prm))
                          THEN VAdd(pos, VScale(safeNormalize2(toTarget), moveDistance))
                          ELSE pos
                newVelocity == VDiv(VSub(newPos, prevPos), safeDt)
                moved == [q EXCEPT !.position = newPos]
            IN [q |-> WithVelocityXY(moved, Mix(VelocityXY(q), newVelocity,
                                                COLLECTION_VELOCITY_DAMPING)),
                inc |-> 0]

\* turbulentMotion(position, time, id): sines and hashes of the position and the
\* time; nz.turbulent is their value for a finite position.
turbulentMotion(position, nz) ==
    IF IsFinite(position.x) /\ IsFinite(position.y) THEN nz.turbulent
    ELSE Vec(NaN, NaN)

calculateChaoticMovement(q, prm, safeDt, nz) ==
    LET chaoticDir == safeNormalize2(turbulentMotion(q.position, nz))
        v1 == VAdd(VelocityXY(q),
                   VScale(VScale(chaoticDir, CHAOTIC_MOVEMENT_SCALE), safeDt))
        speedSq == Dot(v1, v1)
        velocityDamping ==
            IF FGt(speedSq, FMul(CHAOTIC_HIGH_SPEED_THRESHOLD, CHAOTIC_HIGH_SPEED_THRESHOLD))
            THEN CHAOTIC_VELOCITY_DAMPING_HIGH
            ELSE CHAOTIC_VELOCITY_DAMPING_NORMAL
    IN WithVelocityXY(q, VScale(v1, velocityDamping))

\* nz.hashX, nz.hashY, nz.hashSeed in [0, 1) are the three hashes, nz.sinTime is
\* sin(time * 3 + seed) and nz.time2 is time * 2.
calculateStormMovement(q, prm, nz) ==
    LET fieldX == FSub(nz.hashX, 500)
        fieldY == FSub(nz.hashY, 500)
        electricForce == VScale(Vec(fieldX, fieldY), STORM_ELECTRIC_FORCE)
        v1 == VAdd(VelocityXY(q), VScale(electricForce, STORM_ELECTRIC_DAMPING))
        baseTurbulence == FMul(nz.sinTime, STORM_BASE_TURBULENCE)
        v2 == VAdd(v1, Vec(baseTurbulence, FMul(baseTurbulence, 700)))
        v3 == VScale(v2, STORM_VELOCITY_DAMPING)
        electricHue == FAdd(FMul(nz.hashSeed, TWO_PI), nz.time2)
        color == << FAdd(300, FMul(700, Sin(electricHue))),
                    FAdd(400, FMul(600, Sin(FAdd(electricHue, ELECTRIC_HUE_OFFSET_G)))),
                    FAdd(800, FMul(200, Sin(FAdd(electricHue, ELECTRIC_HUE_OFFSET_B)))),
                    FAdd(700, FMul(300, nz.sinTime)) >>
    IN [WithVelocityXY(q, v3) EXCEPT !.color = color]

(***************************************************************************)
(* Particle property calculations                                          *)
(***************************************************************************)
calculateParticleSize(q, prm, id, nz) ==
    LET pulse == FAdd(FMul(Sin(FAdd(FMul(q.life, 2 * SCALE), id * 10)),
                           PARTICLE_PULSE_AMPLITUDE), SCALE)
        size0 == IF prm.state = SIMULATION_STATE_COLLECTING
                    \/ prm.state = SIMULATION_STATE_COLLECTED
                 THEN q.baseSize
                 ELSE FMul(q.baseSize, pulse)
        size == IF ~isFloatSafe(size0) \/ FLt(size0, 0) THEN prm.minParticleSize
                ELSE size0
    IN FClamp(size, prm.minParticleSize, prm.maxParticleSize, nz.undef)

(***************************************************************************)
(* Physics integration                                                     *)
(***************************************************************************)
\* if (length(p.velocity.xy) > MAX_VELOCITY)
\*     p.velocity.xy = safeNormalize2(p.velocity.xy) * MAX_VELOCITY;
BoundarySpeedUnlimited(v) == v
BoundarySpeedLimit(v) ==
    IF FGt(Length(v), MAX_VELOCITY) THEN VScale(safeNormalize2(v), MAX_VELOCITY) ELSE v

\* One axis below the repulsion zone: the coordinate c and its velocity w.
BoundaryLow(c, w) ==
    LET repulsionZoneMin == NDC_MIN_POS + REPULSION_ZONE
        clampMin == NDC_MIN_POS + BOUNDARY_MARGIN
        penetration == FSub(repulsionZoneMin, c)
        w1 == FAdd(w, FMul(FMul(penetration, REPULSION_STRENGTH), DEFAULT_DT))
    IN IF FLe(c, NDC_MIN_POS)
       THEN [c |-> clampMin,
             w |-> IF FLt(w1, 0) THEN FMul(FNeg(w1), BOUNDARY_BOUNCE_DAMPING) ELSE w1]
       ELSE [c |-> c, w |-> w1]

\* One axis above the repulsion zone.
BoundaryHighNoBounce(c, w) ==
    LET repulsionZoneMax == NDC_MAX_POS - REPULSION_ZONE
        clampMax == NDC_MAX_POS - BOUNDARY_MARGIN
        penetration == FSub(c, repulsionZoneMax)
        w1 == FSub(w, FMul(FMul(penetration, REPULSION_STRENGTH), DEFAULT_DT))
    IN IF FGe(c, NDC_MAX_POS) THEN [c |-> clampMax, w |-> w1] ELSE [c |-> c, w |-> w1]
BoundaryHigh(c, w) ==
    LET repulsionZoneMax == NDC_MAX_POS - REPULSION_ZONE
        clampMax == NDC_MAX_POS - BOUNDARY_MARGIN
        penetration == FSub(c, repulsionZoneMax)
        w1 == FSub(w, FMul(FMul(penetration, REPULSION_STRENGTH), DEFAULT_DT))
    IN IF FGe(c, NDC_MAX_POS)
       THEN [c |-> clampMax,
             w |-> IF FGt(w1, 0) THEN FMul(FNeg(w1), BOUNDARY_BOUNCE_DAMPING) ELSE w1]
       ELSE [c |-> c, w |-> w1]

BoundaryAxis(c, w) ==
    IF FLt(c, NDC_MIN_POS + REPULSION_ZONE) THEN BoundaryLow(c, w)
    ELSE IF FGt(c, NDC_MAX_POS - REPULSION_ZONE) THEN BoundaryHigh(c, w)
    ELSE [c |-> c, w |-> w]

\* if (!isFloatSafe(p.position.x)) p.position.x = 0.0;
SafeOrUnchanged(c) == c
SafeOrZero(c) == IF ~isFloatSafe(c) THEN 0 ELSE c

applyBoundaryConditionsForPhysics(q, prm, nz) ==
    LET px == SafeOrZero(q.position.x)
        py == SafeOrZero(q.position.y)
    IN IF prm.state = SIMULATION_STATE_COLLECTING
          \/ prm.state = SIMULATION_STATE_COLLECTED
       THEN WithVelocityXY(
                [q EXCEPT !.position = Vec(FClamp(px, NDC_MIN_POS, NDC_MAX_POS, nz.undef),
                                           FClamp(py, NDC_MIN_POS, NDC_MAX_POS, nz.undef))],
                BoundarySpeedLimit(VelocityXY(q)))
       ELSE LET ax == BoundaryAxis(px, q.velocity.x)
                ay == BoundaryAxis(py, q.velocity.y)
            IN WithVelocityXY([q EXCEPT !.position = Vec(ax.c, ay.c)],
                              BoundarySpeedLimit(Vec(ax.w, ay.w)))

\* if (!isFloatSafe(speed)) { p.velocity = float3(0.0, 0.0, 0.0); speed = 0.0; }
SpeedUnsafe(speed) == ~isFloatSafe(speed)

\* if (!isFloatSafe(p.position.x)) p.position.x = oldPos.x;
SafeOrOld(c, old) == IF ~isFloatSafe(c) THEN old ELSE c

integrateParticleForPhysics(q, safeDt, acceleration) ==
    LET v0 == VAdd(VelocityXY(q), VScale(acceleration, safeDt))
        speed0 == FSqrt(Dot(v0, v0))
        q1 == IF SpeedUnsafe(speed0)
              THEN [q EXCEPT !.velocity = [x |-> 0, y |-> 0, z |-> 0]]
              ELSE WithVelocityXY(q, v0)
        speed == IF SpeedUnsafe(speed0) THEN 0 ELSE speed0
        v1 == IF FGt(speed, MAX_VELOCITY)
              THEN VScale(safeNormalize2(VelocityXY(q1)), MAX_VELOCITY)
              ELSE VelocityXY(q1)
        oldPos == q.position
        pos == VAdd(oldPos, VScale(v1, safeDt))
    IN [WithVelocityXY(q1, v1) EXCEPT
            !.position = Vec(SafeOrOld(pos.x, oldPos.x), SafeOrOld(pos.y, oldPos.y))]

\* Pixel-perfect mode: round(x) to the nearest integer, halves away from zero.
Round(c) ==
    IF ~IsFinite(c) THEN c
    ELSE Sign(c) * ((Abs(c) + SCALE \div 2) \div SCALE) * SCALE

applyPixelPerfectMode(q, pixelSizeMode) ==
    IF pixelSizeMode = 1
    THEN [q EXCEPT !.position = Vec(Round(q.position.x), Round(q.position.y))]
    ELSE q

(***************************************************************************)
(* The kernel, for the thread whose thread_position_in_grid is id, from    *)
(* the load of particles[id] to the value it stores.                       *)
(***************************************************************************)
\* bool isFullyCollected = (p.life == PARTICLE_COLLECTED && state == COLLECTED)
isFullyCollectedNever(q, prm) == FALSE
isFullyCollected(q, prm) ==
    q.life = PARTICLE_COLLECTED /\ prm.state = SIMULATION_STATE_COLLECTED

\* if (isFloatSafe(p.life) && p.life >= PARTICLE_ALIVE)
LifeAdvancesAlways(life) == isFloatSafe(life)
LifeAdvances(life) == isFloatSafe(life) /\ FGe(life, PARTICLE_ALIVE)

\* p.life += safeDt; if (p.life > TWO_PI) p.life -= TWO_PI;
AdvanceLife(life, safeDt) ==
    IF LifeAdvances(life)
    THEN LET l1 == FAdd(life, safeDt)
         IN IF FGt(l1, TWO_PI) THEN FSub(l1, TWO_PI) ELSE l1
    ELSE life

\* The switch over params[0].state.
Dispatch(q, id, prm, safeDt, nz) ==
    CASE prm.state = SIMULATION_STATE_COLLECTING ->
            calculateCollectionMovement(q, prm, safeDt, nz)
      [] prm.state = SIMULATION_STATE_COLLECTED ->
            [q |-> [WithVelocityXY(q, Vec(0, 0)) EXCEPT
                        !.position = q.targetPosition,
                        !.life = PARTICLE_COLLECTED],
             inc |-> 0]
      [] prm.state = SIMULATION_STATE_LIGHTNING_STORM ->
            [q |-> calculateStormMovement(q, prm, nz), inc |-> 0]
      [] OTHER ->
            [q |-> calculateChaoticMovement(q, prm, safeDt, nz), inc |-> 0]

\* The body of updateParticles for an id below particleCount: the particle to
\* store and the number added to collectedCounter on the way.  Each statement
\* works on the thread's particle as the statements before it left it.
updateParticles(q, id, prm, nz) ==
    LET safeDt == safeDeltaTimeForPhysics(prm.deltaTime)
        RestoreColor(q0) ==
            IF prm.state # SIMULATION_STATE_LIGHTNING_STORM
            THEN [q0 EXCEPT !.color = q0.originalColor]
            ELSE q0
        Move(q0) == Dispatch(q0, id, prm, safeDt, nz)
        Integrate(d) ==
            [d EXCEPT !.q = integrateParticleForPhysics(d.q, safeDt, Vec(0, 0))]
        Bound(d) == [d EXCEPT !.q = applyBoundaryConditionsForPhysics(d.q, prm, nz)]
        Size(d) == [d EXCEPT !.q.size = calculateParticleSize(d.q, prm, id, nz)]
        Life(d) == [d EXCEPT !.q.life = AdvanceLife(d.q.life, safeDt)]
    IN IF isFullyCollected(q, prm) THEN [q |-> q, inc |-> 0]
       ELSE CHOOSE r \in
                { Life(d4) : d4 \in
                { Size(d3) : d3 \in
                { Bound(d2) : d2 \in
                { Integrate(d1) : d1 \in
                { Move(q0) : q0 \in {RestoreColor(q)} } } } } } : TRUE

(***************************************************************************)
(* A dispatch of the kernel: the driver replaces params and starts one     *)
(* thread per grid position; a thread loads particles[id], computes on its *)
(* thread-local copy (adding to collectedCounter atomically on the way)    *)
(* and stores particles[id].                                               *)
(***************************************************************************)
Threads == DOMAIN pc

Quiescent == \A t \in Threads : pc[t] = "idle"

\* uint id = thread_position_in_grid; particles[id]
ParticleIndexZero(t) == 0
ParticleIndex(t) == t

\* atomic_fetch_add_explicit(collectedCounter, n, memory_order_relaxed): the
\* cell after the add, for its current value and the value the thread's
\* dispatch started from.
AtomicAddFromStale(current, atStart, n) == atStart + n
AtomicAdd(current, atStart, n) == current + n

BeginTickWith(ParamChoices, NoiseChoices, maxTicks) ==
    /\ Quiescent
    /\ ticks < maxTicks
    /\ \E prm \in ParamChoices, nz \in [DOMAIN particles -> NoiseChoices] :
          /\ params' = prm
          /\ noise' = nz
    /\ pc' = [t \in Threads |-> "start"]
    /\ ticks' = ticks + 1
    /\ tickStart' = particles
    /\ counterStart' = collectedCounter
    /\ UNCHANGED <<particles, collectedCounter, p, piped, snapCollected,
                   forceCollected, counted>>
    /\ UNCHANGED samplerVars

\* if (id >= params[0].particleCount) return;
OutOfRange(t) ==
    /\ pc[t] = "start"
    /\ t >= params.particleCount
    /\ pc' = [pc EXCEPT ![t] = "idle"]
    /\ UNCHANGED <<particles, params, collectedCounter, noise, p, ticks,
                   tickStart, counterStart, piped, snapCollected, forceCollected,
                   counted>>
    /\ UNCHANGED samplerVars

\* Particle p = particles[id];
Load(t) ==
    /\ pc[t] = "start"
    /\ ~(t >= params.particleCount)
    /\ p' = [p EXCEPT ![t] = particles[ParticleIndex(t)]]
    /\ pc' = [pc EXCEPT ![t] = "loaded"]
    /\ UNCHANGED <<particles, params, collectedCounter, noise, ticks,
                   tickStart, counterStart, piped, snapCollected, forceCollected,
                   counted>>
    /\ UNCHANGED samplerVars

\* Everything between the load and the store.
Compute(t) ==
    /\ pc[t] = "loaded"
    /\ \E r \in {updateParticles(p[t], t, params, noise[t])} :
          /\ p' = [p EXCEPT ![t] = r.q]
          /\ collectedCounter' =
                IF r.inc > 0 THEN AtomicAdd(collectedCounter, counterStart, r.inc)
                ELSE collectedCounter
          /\ counted' = [counted EXCEPT ![ParticleIndex(t)] = @ + r.inc]
    /\ pc' = [pc EXCEPT ![t] = IF isFullyCollected(p[t], params)
                               THEN "passed" ELSE "computed"]
    /\ UNCHANGED <<particles, params, noise, ticks, tickStart, counterStart,
                   piped, snapCollected, forceCollected>>
    /\ UNCHANGED samplerVars

\* particles[id] = p;
Store(t) ==
    /\ pc[t] \in {"computed", "passed"}
    /\ LET i == ParticleIndex(t)
           becameCollected == /\ FGe(particles[i].life, PARTICLE_ALIVE)
                              /\ p[t].life = PARTICLE_COLLECTED
       IN /\ particles' = [particles EXCEPT ![i] = p[t]]
          /\ piped' = [piped EXCEPT ![i] = @ \/ pc[t] = "computed"]
          /\ snapCollected' =
                [snapCollected EXCEPT ![i] =
                    IF becameCollected /\ params.state = SIMULATION_STATE_COLLECTING
                    THEN @ + 1 ELSE @]
          /\ forceCollected' =
                [forceCollected EXCEPT ![i] =
                    IF becameCollected /\ params.state # SIMULATION_STATE_COLLECTING
                    THEN @ + 1 ELSE @]
    /\ pc' = [pc EXCEPT ![t] = "idle"]
    /\ UNCHANGED <<params, collectedCounter, noise, p, ticks, tickStart,
                   counterStart, counted>>
    /\ UNCHANGED samplerVars

\* The sampler is not running.
SamplerOff ==
    /\ samples = NoSamples
    /\ targetCount = 0
    /\ imageHeight = 0
    /\ bands = 0
    /\ spc = "off"
    /\ samplesNull = FALSE
    /\ outSamplesNull = FALSE
    /\ NoAllocationFails
    /\ SamplerIdle

(***************************************************************************)
(* The inputs of the kernel's specifications.                              *)
(***************************************************************************)
MaxTicks == 2
ConcTicks == 3
NumThreads == 2

BaseColor == <<1000, 500, 0, 1000>>
OtherColor == <<0, 0, 1000, 500>>

Particle(pos, vel, target, life, color) ==
    [position |-> pos,
     velocity |-> [x |-> vel.x, y |-> vel.y, z |-> 250],
     targetPosition |-> target,
     color |-> color,
     originalColor |-> BaseColor,
     size |-> 3000,
     baseSize |-> 2000,
     life |-> life,
     idleChaoticMotion |-> 0]

\* Particles with finite fields: at rest or too fast; far from the target,
\* within the snap distance, outside the domain, at the hard edge.
FiniteParticles ==
    { Particle(pos, vel, Vec(500, 0), life, OtherColor) :
        pos \in {Vec(0, 0), Vec(450, 0), Vec(-1500, 0), Vec(990, -1000)},
        vel \in {Vec(0, 0), Vec(20000, 0)},
        life \in {PARTICLE_ALIVE, PARTICLE_COLLECTED} }

\* Particles with NaN or infinity in the position, the velocity, the target or
\* the life, and one with its target outside the domain.
NonFiniteParticles ==
    { Particle(Vec(NaN, 0), Vec(0, 0), Vec(500, 0), PARTICLE_ALIVE, BaseColor),
      Particle(Vec(PInf, 200), Vec(NaN, 0), Vec(500, 0), PARTICLE_COLLECTED, BaseColor),
      Particle(Vec(0, 0), Vec(0, NInf), Vec(NaN, 0), NaN, BaseColor),
      Particle(Vec(0, 0), Vec(-300, 400), Vec(PInf, 0), 6280, BaseColor),
      Particle(Vec(0, 0), Vec(0, 0), Vec(1200, 0), PARTICLE_COLLECTED, BaseColor) }

InitialParticles == FiniteParticles \cup NonFiniteParticles

States == {SIMULATION_STATE_IDLE, SIMULATION_STATE_CHAOTIC,
           SIMULATION_STATE_COLLECTING, SIMULATION_STATE_COLLECTED,
           SIMULATION_STATE_LIGHTNING_STORM}

Params(state, dt, count, mode) ==
    [state |-> state,
     pixelSizeMode |-> mode,
     deltaTime |-> dt,
     collectionSpeed |-> 1000,
     screenSize |-> Vec(20, 10),
     minParticleSize |-> 1000,
     maxParticleSize |-> 10000,
     particleCount |-> count]

\* Every state with a valid deltaTime; a NaN deltaTime; pixel-perfect mode; a
\* particleCount below the grid size.
ParamSet ==
    { Params(st, 8, 1, 0) : st \in States }
    \cup { Params(SIMULATION_STATE_COLLECTING, NaN, 1, 0),
           Params(SIMULATION_STATE_CHAOTIC, NaN, 1, 1),
           Params(SIMULATION_STATE_IDLE, 8, 0, 0) }

NoiseSet ==
    { [turbulent |-> Vec(1500, -800), hashX |-> 999, hashY |-> 0,
       hashSeed |-> 250, sinTime |-> 1000, time2 |-> 0, undef |-> NaN],
      [turbulent |-> Vec(0, 0), hashX |-> 500, hashY |-> 500,
       hashSeed |-> 0, sinTime |-> -1000, time2 |-> 2000, undef |-> 0] }

PhysInitWith(ids, Choices) ==
    /\ particles \in [ids -> Choices]
    /\ params = Params(SIMULATION_STATE_IDLE, DEFAULT_DT, Cardinality(ids), 0)
    /\ collectedCounter = 0
    /\ noise \in [ids -> {CHOOSE nz \in NoiseSet : nz.undef = 0}]
    /\ pc = [t \in ids |-> "idle"]
    /\ p = particles
    /\ ticks = 0
    /\ tickStart = particles
    /\ counterStart = 0
    /\ piped = [i \in ids |-> FALSE]
    /\ snapCollected = [i \in ids |-> 0]
    /\ forceCollected = [i \in ids |-> 0]
    /\ counted = [i \in ids |-> 0]
    /\ SamplerOff

(***************************************************************************)
(* Spec: one particle, every kind of input, every state.                   *)
(***************************************************************************)
Init == PhysInitWith({0}, InitialParticles)

BeginTick == BeginTickWith(ParamSet, NoiseSet, MaxTicks)

Next ==
    \/ BeginTick
    \/ \E t \in Threads : OutOfRange(t)
    \/ \E t \in Threads : Load(t)
    \/ \E t \in Threads : Compute(t)
    \/ \E t \in Threads : Store(t)

Spec == Init /\ [][Next]_vars

(***************************************************************************)
(* SpecConc: NumThreads threads of one dispatch, interleaved step by step. *)
(***************************************************************************)
ThreadIds == 0 .. NumThreads - 1

\* Alive one tick away from the snap distance, alive within the snap
\* distance, collected at the target.
ConcParticles ==
    { Particle(Vec(380, 0), Vec(0, 0), Vec(500, 0), PARTICLE_ALIVE, BaseColor),
      Particle(Vec(450, 0), Vec(0, 0), Vec(500, 0), PARTICLE_ALIVE, BaseColor),
      Particle(Vec(500, 0), Vec(0, 0), Vec(500, 0), PARTICLE_COLLECTED, BaseColor) }

ConcParamSet ==
    { Params(SIMULATION_STATE_COLLECTING, DEFAULT_DT, NumThreads, 0),
      Params(SIMULATION_STATE_COLLECTING, DEFAULT_DT, NumThreads - 1, 0),
      Params(SIMULATION_STATE_COLLECTED, DEFAULT_DT, NumThreads, 0),
      Params(SIMULATION_STATE_CHAOTIC, DEFAULT_DT, NumThreads, 0) }

ConcNoiseSet == { nz \in NoiseSet : nz.undef = 0 }

InitConc == PhysInitWith(ThreadIds, ConcParticles)

BeginTickConc == BeginTickWith(ConcParamSet, ConcNoiseSet, ConcTicks)

NextConc ==
    \/ BeginTickConc
    \/ \E t \in Threads : OutOfRange(t)
    \/ \E t \in Threads : Load(t)
    \/ \E t \in Threads : Compute(t)
    \/ \E t \in Threads : Store(t)

SpecConc == InitConc /\ [][NextConc]_vars


(***************************************************************************)
(* SpecCollect: one alive particle at rest away from its target, and the   *)
(* state staying COLLECTING with the same parameters tick after tick.      *)
(***************************************************************************)
CollectTicks == 16

\* A 20x10 screen (a pixel is 0.1) at the default collection speed 1.0, and
\* screens of 2000x1000 and 1920x1080 (a pixel is 0.001) at speed 100.
CollectParams(speed, screen) ==
    [Params(SIMULATION_STATE_COLLECTING, DEFAULT_DT, 1, 0) EXCEPT
        !.collectionSpeed = speed, !.screenSize = screen]

AtRest(pos, target) == Particle(pos, Vec(0, 0), target, PARTICLE_ALIVE, BaseColor)

CollectScenarios ==
    { [particle |-> AtRest(Vec(x, 0), Vec(500, 0)),
       params |-> CollectParams(1000, Vec(20, 10))] : x \in {-200, 0, 300, 900} }
    \cup
    { [particle |-> AtRest(Vec(x, 0), Vec(500, 0)),
       params |-> CollectParams(100000, Vec(2000, 1000))] : x \in {400, 450, 600} }
    \cup
    { [particle |-> AtRest(Vec(900, 0), Vec(950, 0)),
       params |-> CollectParams(100000, Vec(1920, 1080))] }

InitCollect ==
    /\ \E s \in CollectScenarios :
          /\ particles = (0 :> s.particle)
          /\ params = s.params
    /\ collectedCounter = 0
    /\ noise \in [{0} -> ConcNoiseSet]
    /\ pc = (0 :> "idle")
    /\ p = particles
    /\ ticks = 0
    /\ tickStart = particles
    /\ counterStart = 0
    /\ piped = (0 :> FALSE)
    /\ snapCollected = (0 :> 0)
    /\ forceCollected = (0 :> 0)
    /\ counted = (0 :> 0)
    /\ SamplerOff

\* The driver issues the next dispatch with the parameters unchanged.
BeginTickCollect == BeginTickWith({params}, ConcNoiseSet, CollectTicks)

NextCollect ==
    \/ BeginTickCollect
    \/ \E t \in Threads : Load(t)
    \/ \E t \in Threads : Compute(t)
    \/ \E t \in Threads : Store(t)

PcValues == {"idle", "start", "loaded", "computed", "passed"}

\* A thread of the dispatch takes its next step, whatever it computes.
ThreadAdvances(t) ==
    /\ pc[t] # "idle"
    /\ \E v \in PcValues \ {pc[t]} : pc' = [pc EXCEPT ![t] = v]

\* The driver keeps issuing dispatches and every thread of a dispatch runs to
\* its end.
SpecCollect ==
    /\ InitCollect /\ [][NextCollect]_vars
    /\ WF_vars(BeginTickCollect)
    /\ WF_pc(ThreadAdvances(0))
(***************************************************************************)
(* Properties of the collected counter.                                    *)
(***************************************************************************)
RECURSIVE TotalOver(_, _)
TotalOver(f, ids) ==
    IF ids = {} THEN 0
    ELSE LET i == CHOOSE j \in ids : TRUE
         IN f[i] + TotalOver(f, ids \ {i})

Total(f) == TotalOver(f, DOMAIN f)

\* C1: after any sequence of ticks, in any sequence of states, the counter
\* equals the number of particles whose life went from alive to the
\* collected sentinel, each counted once.
C1_CounterCountsCollected ==
    Quiescent =>
        /\ collectedCounter = Total(snapCollected) + Total(forceCollected)
        /\ \A i \in DOMAIN particles : snapCollected[i] + forceCollected[i] <= 1

\* The counter does count the snaps of COLLECTING ticks, each once.
CounterCountsSnaps ==
    Quiescent =>
        /\ collectedCounter = Total(snapCollected)
        /\ \A i \in DOMAIN particles : snapCollected[i] + forceCollected[i] <= 1

(***************************************************************************)
(* The threads of one dispatch against the sequential orders.              *)
(***************************************************************************)
Orders ==
    { o \in [1 .. Cardinality(Threads) -> Threads] :
        \A a, b \in DOMAIN o : a # b => o[a] # o[b] }

\* The invocations of one dispatch run one after the other in the given order.
RECURSIVE RunSequential(_, _, _)
RunSequential(arr, cnt, order) ==
    IF order = << >> THEN [particles |-> arr, counter |-> cnt]
    ELSE LET id == Head(order)
             r == updateParticles(arr[id], id, params, noise[id])
         IN IF id >= params.particleCount
            THEN RunSequential(arr, cnt, Tail(order))
            ELSE RunSequential([arr EXCEPT ![id] = r.q], cnt + r.inc, Tail(order))

OwnIndexOnly ==
    \A t \in Threads :
        /\ particles'[t] # particles[t] =>
              pc[t] \in {"computed", "passed"} /\ pc'[t] = "idle"
        /\ (pc[t] = "start" /\ pc'[t] = "loaded") => p'[t] = particles[t]

NoIncrementLost ==
    /\ collectedCounter = Total(counted)
    /\ \A i \in DOMAIN counted : counted[i] <= 1

SameAsSequential ==
    (Quiescent /\ ticks > 0) =>
        \A o \in Orders :
            RunSequential(tickStart, counterStart, o) =
                [particles |-> particles, counter |-> collectedCounter]

\* C2: in any interleaving of one tick's invocations each invocation reads
\* and writes only its own particle and the counter, no increment is lost,
\* no particle is counted twice, and the particles and the counter end as
\* any sequential order of the invocations leaves them.
C2_InterleavingsAgree ==
    /\ [](NoIncrementLost /\ SameAsSequential)
    /\ [][OwnIndexOnly]_vars

\* Two threads of one dispatch both added to the counter, and a later
\* dispatch has run over the collected particles.
C2_Witness ==
    /\ Quiescent
    /\ ticks > 1
    /\ collectedCounter >= 2
    /\ \E i, j \in DOMAIN particles :
          /\ i # j
          /\ counted[i] = 1 /\ counted[j] = 1
          /\ tickStart[i].life = PARTICLE_COLLECTED
          /\ tickStart[j].life = PARTICLE_COLLECTED
          /\ params.state = SIMULATION_STATE_COLLECTING

(***************************************************************************)
(* Properties of one particle's update.                                    *)
(***************************************************************************)
Processed(i) == ~(i >= params.particleCount)

SentinelAbsorbing ==
    \A i \in DOMAIN particles :
        particles[i].life = PARTICLE_COLLECTED =>
            particles'[i].life = PARTICLE_COLLECTED

AdvancedOnlyWhenAlive ==
    \A i \in DOMAIN particles :
        particles'[i].life \notin {particles[i].life, PARTICLE_COLLECTED} =>
            LET old == particles[i].life
                sum == old + safeDeltaTimeForPhysics(params.deltaTime)
            IN /\ IsFinite(old)
               /\ old >= PARTICLE_ALIVE
               /\ particles'[i].life = IF sum > TWO_PI THEN sum - TWO_PI ELSE sum

\* C3: a life equal to the collected sentinel is never changed by a tick of
\* any state, and life is advanced (by dt, wrapped at 2 pi) only from a
\* value in the alive range.
C3_SentinelAbsorbing == [][SentinelAbsorbing /\ AdvancedOnlyWhenAlive]_vars

\* A collected particle went through the pipeline of a CHAOTIC tick, which
\* moved it and left its life at the sentinel.
C3_Witness ==
    \E i \in DOMAIN particles :
        /\ Quiescent /\ ticks > 0 /\ Processed(i)
        /\ params.state = SIMULATION_STATE_CHAOTIC
        /\ tickStart[i].life = PARTICLE_COLLECTED
        /\ particles[i].life = PARTICLE_COLLECTED
        /\ particles[i].position # tickStart[i].position

SpeedWithinMax(q) == FLe(Length(VelocityXY(q)), MAX_VELOCITY)

\* C8: a particle that went through the update pipeline has speed at most
\* MAX_VELOCITY after every tick, and no tick takes a particle within
\* MAX_VELOCITY beyond it.
C8_SpeedWithinMax ==
    /\ [](\A i \in DOMAIN particles : piped[i] => SpeedWithinMax(particles[i]))
    /\ [][\A i \in DOMAIN particles :
            SpeedWithinMax(particles[i]) => SpeedWithinMax(particles'[i])]_vars

\* A particle that came in faster than MAX_VELOCITY went through a CHAOTIC
\* tick and moves at a speed within the limit.
C8_Witness ==
    \E i \in DOMAIN particles :
        /\ Quiescent /\ ticks = 1 /\ piped[i]
        /\ params.state = SIMULATION_STATE_CHAOTIC
        /\ tickStart[i].velocity.x = 20000
        /\ Length(VelocityXY(particles[i])) > 0
        /\ SpeedWithinMax(particles[i])

Safe(q) == isFloat2Safe(q.position) /\ isFloat2Safe(VelocityXY(q))

TickDone == Quiescent /\ ticks > 0

\* Both coordinates of the target lie in [NDC_MIN_POS, NDC_MAX_POS].
TargetInDomain(q) ==
    /\ FGe(q.targetPosition.x, NDC_MIN_POS) /\ FLe(q.targetPosition.x, NDC_MAX_POS)
    /\ FGe(q.targetPosition.y, NDC_MIN_POS) /\ FLe(q.targetPosition.y, NDC_MAX_POS)

Pinned(q) ==
    /\ q.position = q.targetPosition
    /\ VelocityXY(q) = Vec(0, 0)
    /\ q.life = PARTICLE_COLLECTED

\* C13: after a tick in the COLLECTED state, whatever the ticks before it were,
\* every particle of the dispatch whose target lies inside the domain has its
\* position equal to its target, zero xy velocity and the sentinel life.
C13_CollectedPinned ==
    (TickDone /\ params.state = SIMULATION_STATE_COLLECTED) =>
        \A i \in DOMAIN particles :
            (Processed(i) /\ TargetInDomain(particles[i])) => Pinned(particles[i])

(***************************************************************************)
(* The COLLECTING state.                                                   *)
(***************************************************************************)
DistanceToTarget(q) == Length(VSub(q.targetPosition, q.position))

BeyondSnap(q) == FGt(DistanceToTarget(q), snapThreshold(params))

Snapped(q) ==
    /\ q.position = q.targetPosition
    /\ VelocityXY(q) = Vec(0, 0)
    /\ q.life = PARTICLE_COLLECTED

\* A tick that started beyond the snap distance stores the particle strictly
\* closer to its target.
CloserEveryTick ==
    \A t \in Threads :
        (pc[t] = "computed" /\ pc'[t] = "idle" /\ BeyondSnap(tickStart[t])) =>
            FLt(DistanceToTarget(particles'[t]), DistanceToTarget(tickStart[t]))

\* The particle at (0.9, 0) with its target at (0.95, 0) on a 1920x1080 screen
\* is not snapped by the first tick.
FirstTickDoesNotSnap ==
    (/\ ticks = 1 /\ TickDone
     /\ params.screenSize = Vec(1920, 1080)
     /\ tickStart[0].position = Vec(900, 0)
     /\ tickStart[0].targetPosition = Vec(950, 0)) => ~Snapped(particles[0])

SnappedAfterFinitelyManyTicks == <>(\A i \in DOMAIN particles : Snapped(particles[i]))

\* C15: while the state stays COLLECTING, a particle that starts at rest beyond
\* the snap distance from a target inside the domain is strictly closer to the
\* target after every tick and is snapped after finitely many ticks; the first
\* tick does not snap the particle of the 1920x1080 example.
C15_CloserUntilSnapped ==
    /\ [][CloserEveryTick]_vars
    /\ SnappedAfterFinitelyManyTicks
    /\ []FirstTickDoesNotSnap

(***************************************************************************)
(* Pixel-perfect mode.                                                     *)
(***************************************************************************)
\* Rounding the position once more would not change it.
PositionRounded(q) == applyPixelPerfectMode(q, 1).position = q.position

\* C17: with pixelSizeMode = 1 every particle a tick has processed ends the tick
\* with both coordinates of its position rounded to integers; with the mode off
\* the tick stores the pipeline's position as it is.
C17_PixelPerfect ==
    TickDone =>
        \A i \in DOMAIN particles :
            Processed(i) =>
                IF params.pixelSizeMode = 1
                THEN PositionRounded(particles[i])
                ELSE particles[i].position =
                        updateParticles(tickStart[i], i, params, noise[i]).q.position

(***************************************************************************)
(* Colour.                                                                 *)
(***************************************************************************)
OriginalColorKept ==
    \A i \in DOMAIN particles : particles[i].originalColor = tickStart[i].originalColor

ColorRestored(i) == particles[i].color = particles[i].originalColor

\* C18: after a tick in a state other than LIGHTNING_STORM, whatever the ticks
\* before it were, the colour of every particle of the dispatch equals its
\* originalColor; no tick in any state changes originalColor.
C18_ColorRestored ==
    /\ OriginalColorKept
    /\ (TickDone /\ params.state # SIMULATION_STATE_LIGHTNING_STORM) =>
          \A i \in DOMAIN particles : Processed(i) => ColorRestored(i)

(***************************************************************************)
(* The domain's boundary.                                                  *)
(***************************************************************************)
\* The particle as applyBoundaryConditionsForPhysics receives it: after the
\* colour restore, the state's movement and the integration.
BeforeBoundary(q, id, prm, nz) ==
    LET safeDt == safeDeltaTimeForPhysics(prm.deltaTime)
        q0 == IF prm.state # SIMULATION_STATE_LIGHTNING_STORM
              THEN [q EXCEPT !.color = q.originalColor]
              ELSE q
    IN integrateParticleForPhysics(Dispatch(q0, id, prm, safeDt, nz).q, safeDt, Vec(0, 0))

InDomain(c) == FGe(c, NDC_MIN_POS) /\ FLe(c, NDC_MAX_POS)

\* A coordinate that came to the boundary function at c, at or beyond a hard
\* edge, is stored at the margin with a velocity w that does not point outward.
EdgeHandled(c, stored, w) ==
    /\ FLe(c, NDC_MIN_POS) => (stored = NDC_MIN_POS + BOUNDARY_MARGIN /\ FGe(w, 0))
    /\ FGe(c, NDC_MAX_POS) => (stored = NDC_MAX_POS - BOUNDARY_MARGIN /\ FLe(w, 0))

Repelling ==
    params.state \in {SIMULATION_STATE_IDLE, SIMULATION_STATE_CHAOTIC,
                      SIMULATION_STATE_LIGHTNING_STORM}

\* C19 as stated: after a tick that took a particle through the update pipeline
\* both coordinates of its position lie in [NDC_MIN_POS, NDC_MAX_POS]; in IDLE,
\* CHAOTIC and LIGHTNING_STORM a coordinate that reached or passed a hard edge
\* is stored at the margin, 0.98 from the centre, with a velocity component
\* that does not point further outward.
C19_InsideDomain ==
    TickDone =>
        \A i \in DOMAIN particles :
            (Processed(i) /\ ~isFullyCollected(tickStart[i], params)) =>
                LET q == particles[i]
                    b == BeforeBoundary(tickStart[i], i, params, noise[i])
                IN /\ InDomain(q.position.x) /\ InDomain(q.position.y)
                   /\ Repelling =>
                         /\ EdgeHandled(b.position.x, q.position.x, q.velocity.x)
                         /\ EdgeHandled(b.position.y, q.position.y, q.velocity.y)

\* C19 amended: the same, for a coordinate that is finite and below
\* MAX_FLOAT_VALUE in magnitude when it reaches or passes the hard edge; any
\* other coordinate is stored as 0.
C19_SafeCoordinateInsideDomain ==
    TickDone =>
        \A i \in DOMAIN particles :
            (Processed(i) /\ ~isFullyCollected(tickStart[i], params)) =>
                LET q == particles[i]
                    b == BeforeBoundary(tickStart[i], i, params, noise[i])
                IN /\ InDomain(q.position.x) /\ InDomain(q.position.y)
                   /\ Repelling =>
                         /\ IF isFloatSafe(b.position.x)
                            THEN EdgeHandled(b.position.x, q.position.x, q.velocity.x)
                            ELSE q.position.x = 0
                         /\ IF isFloatSafe(b.position.y)
                            THEN EdgeHandled(b.position.y, q.position.y, q.velocity.y)
                            ELSE q.position.y = 0

\* A CHAOTIC tick over a particle that integration carried past the right edge
\* while it sat on the bottom edge: it is stored at (0.98, -0.98), moving left.
C19_Witness ==
    /\ TickDone
    /\ params.state = SIMULATION_STATE_CHAOTIC
    /\ tickStart[0].life = PARTICLE_ALIVE
    /\ tickStart[0].velocity.x > MAX_VELOCITY
    /\ FGt(BeforeBoundary(tickStart[0], 0, params, noise[0]).position.x, NDC_MAX_POS)
    /\ particles[0].position = Vec(NDC_MAX_POS - BOUNDARY_MARGIN,
                                   NDC_MIN_POS + BOUNDARY_MARGIN)
    /\ particles[0].velocity.x < 0
====
